---- MODULE Spec2Model ----
(***************************************************************************)
(* Behavioural model of the exercise scripts of ai-foundry-agents-practical *)
(*                                                                         *)
(*  Part 1  the SQLite MCP server (04-mcp/exercises/scripts)               *)
(*  Part 2  the run-status polling loops of the exercise scripts           *)
(*  Part 3  the sequential agents pipeline (03-orchestration, 2.2)         *)
(*  Part 4  the get-or-create agent operations                             *)
(*                                                                         *)
(* Each part has its own specification over the shared variables; the      *)
(* variables of the other parts stay at their initial values.              *)
(***************************************************************************)
EXTENDS Integers, Sequences, FiniteSets, TLC

VARIABLES
    \* ---- Part 1: SQLite MCP server process
    db,           \* contents of ./mcp-config/business.db
    TOOLS,        \* the module global TOOLS
    backlog,      \* number of client connections waiting in the listen queue
    inflight,     \* the request handlers that were started and have not finished
    last,         \* the handler that finished most recently (history)
    initialized,  \* history: an initialize request has been answered
    twin,         \* a second server fed the same POSTs except the initialize ones
    \* ---- Part 2: one script polling one run
    poll,
    \* ---- Part 3: sequential pipeline
    pipe,
    \* ---- Part 4: agent service and get-or-create callers
    goc,
    \* ---- Part 5: the MCP analytics demo script
    demo,
    \* ---- Part 6: BasicMCPServer (exercise_1_mocking_mcp_server)
    basic,
    \* ---- Part 7: ConversationManager (exercise_3_conversation)
    conv,
    \* ---- SemanticKernelOrchestrator (exercise_2_semantic_kernel)
    sk

vars == <<db, TOOLS, backlog, inflight, last, initialized, twin, poll, pipe, goc, demo, basic, conv, sk>>

(***************************************************************************)
(* Bounds                                                                  *)
(***************************************************************************)
MaxConns == 2      \* client connections that can be open at the same time
MaxRows == 1       \* primary keys a table row can take

(***************************************************************************)
(* Python / JSON values                                                    *)
(***************************************************************************)
None == "<None>"                         \* Python None, JSON null

EmptyDict == [k \in {} |-> None]         \* {}

\* A parsed JSON value: a dict carries its items, any other value only its type.
Obj(r) == [t |-> "object", v |-> r]
NonObj(kind) == [t |-> kind, v |-> EmptyDict]
Arr(items) == [t |-> "array", v |-> items]
JNull == NonObj("null")

\* dict.get(key, default)
Get(d, k, default) == IF k \in DOMAIN d THEN d[k] ELSE default

\* str.strip() on a text held as a sequence of tokens, " " being white space
RECURSIVE lstrip(_)
lstrip(s) == IF s # <<>> /\ Head(s) = " " THEN lstrip(Tail(s)) ELSE s

RECURSIVE rstrip(_)
rstrip(s) == IF s # <<>> /\ s[Len(s)] = " " THEN rstrip(SubSeq(s, 1, Len(s) - 1)) ELSE s

strip(s) == rstrip(lstrip(s))

\* str.upper() on the SQL keywords the requests use
upper(tok) ==
    CASE tok = "select" -> "SELECT"
      [] tok = "pragma" -> "PRAGMA"
      [] OTHER -> tok

\* json.dumps(value, indent=2): the text of a value
dumps(value) == <<"json", value>>

(***************************************************************************)
(* SQLite                                                                  *)
(***************************************************************************)
TableNames == {"customers"}
RowKeys == 1 .. MaxRows

NoTable == [exists |-> FALSE, rows |-> {}]

\* The rows of a table in rowid order, as sqlite3.Row dicts
RECURSIVE RowsOf(_)
RowsOf(keys) ==
    IF keys = {} THEN <<>>
    ELSE LET k == CHOOSE x \in keys : \A y \in keys : x <= y
         IN <<[id |-> k]>> \o RowsOf(keys \ {k})

\* The names in sqlite_master
MasterRows(d) ==
    LET present == {t \in TableNames : d[t].exists}
    IN IF present = {} THEN <<>> ELSE <<[name |-> "customers"]>>

Placeholders(sql) == Cardinality({i \in DOMAIN sql : sql[i] = "?"})

SqlOk(rows, count, d) == [raised |-> FALSE, exc |-> <<>>, rows |-> rows, rowcount |-> count, db |-> d]
SqlError(msg, d) == [raised |-> TRUE, exc |-> <<msg>>, rows |-> <<>>, rowcount |-> -1, db |-> d]

\* cursor.execute(sql, params): SQLite parses the statement whatever its case
\* and leading white space; a failing statement leaves the database as it was.
execute(sql, params, d) ==
    LET s == strip(sql)
        verb == IF s = <<>> THEN "" ELSE upper(s[1])
        tab == IF Len(s) >= 2 THEN s[2] ELSE ""
    IN  IF Placeholders(s) # Len(params)
          THEN SqlError("Incorrect number of bindings supplied", d)
        ELSE IF verb = "SELECT" /\ tab = "sqlite_master"
          THEN SqlOk(MasterRows(d), -1, d)
        ELSE IF verb = "PRAGMA"
          THEN SqlOk(IF tab \in TableNames /\ d[tab].exists
                       THEN <<[name |-> "id"]>> ELSE <<>>, -1, d)
        ELSE IF verb \notin {"SELECT", "INSERT", "DELETE", "DROP", "CREATE"}
          THEN SqlError("syntax error", d)
        ELSE IF verb = "CREATE"
          THEN IF tab \in TableNames /\ ~d[tab].exists
                 THEN SqlOk(<<>>, -1, [d EXCEPT ![tab] = [exists |-> TRUE, rows |-> {}]])
                 ELSE SqlError("table already exists", d)
        ELSE IF ~(tab \in TableNames /\ d[tab].exists)
          THEN SqlError("no such table", d)
        ELSE IF verb = "SELECT"
          THEN SqlOk(RowsOf(d[tab].rows), -1, d)
        ELSE IF verb = "INSERT"
          THEN IF params[1] \in d[tab].rows
                 THEN SqlError("UNIQUE constraint failed", d)
                 ELSE SqlOk(<<>>, 1, [d EXCEPT ![tab].rows = @ \cup {params[1]}])
        ELSE IF verb = "DELETE"
          THEN SqlOk(<<>>, Cardinality(d[tab].rows), [d EXCEPT ![tab].rows = {}])
        ELSE SqlOk(<<>>, -1, [d EXCEPT ![tab] = NoTable])

\* sql.strip().upper().startswith("SELECT") or ...startswith("PRAGMA")
IsQuery(sql) ==
    LET s == strip(sql)
    IN s # <<>> /\ upper(s[1]) \in {"SELECT", "PRAGMA"}

\* db_query(sql, params): executes, then returns the fetched rows of a
\* SELECT/PRAGMA, or commits and returns the affected row count.
db_query(sql, params, d) ==
    LET r == execute(sql, IF params.t = "array" THEN params.v ELSE <<>>, d)   \* params or []
    IN  IF r.raised THEN [raised |-> TRUE, exc |-> r.exc, value |-> <<>>, db |-> d]
        ELSE IF IsQuery(sql)
          THEN [raised |-> FALSE, exc |-> <<>>, value |-> r.rows, db |-> r.db]
          ELSE [raised |-> FALSE, exc |-> <<>>,
                value |-> [affected |-> r.rowcount], db |-> r.db]

(***************************************************************************)
(* MCPHandler.handle_mcp                                                   *)
(***************************************************************************)
TOOLS_AT_IMPORT ==
    << [name |-> "sql_query", description |-> "Execute SQL queries on the database",
        required |-> <<"query">>],
       [name |-> "list_tables", description |-> "List all tables in the database",
        required |-> <<>>],
       [name |-> "table_schema", description |-> "Get schema for a table",
        required |-> <<"table">>] >>

\* A response built from a message class with all its fields: a success
\* carries an error member too
ResultWithAllFields(req_id, result) ==
    [jsonrpc |-> "2.0", id |-> req_id, result |-> result, error |-> None]

\* A success response
Result(req_id, result) == [jsonrpc |-> "2.0", id |-> req_id, result |-> result]
Error(req_id, code, message) ==
    [jsonrpc |-> "2.0", id |-> req_id, error |-> [code |-> code, message |-> message]]

\* How far handle_mcp gets before it needs the database
Returns(resp) == [tag |-> "return", resp |-> resp, exc |-> <<>>, sql |-> <<>>, params |-> JNull]
Raises(req_id, exc) ==      \* raised inside the try: lines 196-201
    [tag |-> "return", resp |-> Error(req_id, -32603, exc), exc |-> exc, sql |-> <<>>,
     params |-> JNull]
Escapes(exc) ==             \* raised outside the try
    [tag |-> "escape", resp |-> EmptyDict, exc |-> exc, sql |-> <<>>, params |-> JNull]
Calls(sql, params) ==       \* reaches db_query(sql, params)
    [tag |-> "db_query", resp |-> EmptyDict, exc |-> <<>>, sql |-> sql, params |-> params]

NoGet == <<"object has no attribute 'get'">>

\* tools/call, lines 132-147
tools_call(req_id, params) ==
    IF params.t # "object" THEN Raises(req_id, NoGet)
    ELSE LET tool == Get(params.v, "name", None)
             args == Get(params.v, "arguments", Obj(EmptyDict))
         IN  IF tool = "sql_query"
               THEN IF args.t # "object" THEN Raises(req_id, NoGet)
                    ELSE LET query == strip(Get(args.v, "query", <<>>))
                         IN IF query = <<>>
                              THEN Raises(req_id, <<"Query parameter is required">>)
                              ELSE Calls(query, Get(args.v, "params", JNull))
             ELSE IF tool = "list_tables"
               THEN Calls(<<"SELECT", "sqlite_master">>, JNull)
             ELSE IF tool = "table_schema"
               THEN IF args.t # "object" THEN Raises(req_id, NoGet)
                    ELSE LET table == strip(Get(args.v, "table", <<>>))
                         IN IF table = <<>>
                              THEN Raises(req_id, <<"Table parameter is required">>)
                              ELSE Calls(<<"PRAGMA">> \o table, JNull)
             ELSE Raises(req_id, <<"Unknown tool: ", tool>>)

\* resources/read, lines 175-179
resources_read(req_id, params) ==
    IF params.t # "object" THEN Raises(req_id, NoGet)
    ELSE LET uri == Get(params.v, "uri", <<"">>)
         IN IF uri[1] # "sqlite:///"
              THEN Raises(req_id, <<"Invalid resource URI">>)
              ELSE Calls(<<"SELECT">> \o Tail(uri), JNull)

\* A wrong error code in the final else branch
method_not_found_as_internal(req_id, method) ==
    Returns(Error(req_id, -32603, <<"Method not found: ", method>>))

\* The final else branch, lines 190-195
method_not_found(req_id, method) ==
    Returns(Error(req_id, -32601, <<"Method not found: ", method>>))

\* handle_mcp from its first line to its first database call
handle_mcp_begin(req, tools) ==
    IF req.t # "object" THEN Escapes(NoGet)       \* req.get, line 102, before the try
    ELSE LET method == Get(req.v, "method", "")
             params == Get(req.v, "params", Obj(EmptyDict))
             req_id == Get(req.v, "id", None)
         IN  IF method = "initialize"
               THEN Returns(Result(req_id,
                        [protocolVersion |-> "2025-03-26",
                         serverInfo |-> [name |-> "sqlite-mcp", version |-> "1.0"],
                         capabilities |-> [tools |-> tools]]))
             ELSE IF method = "tools/list"
               THEN Returns(Result(req_id, [tools |-> tools]))
             ELSE IF method = "tools/call" THEN tools_call(req_id, params)
             ELSE IF method = "resources/list"
               THEN Calls(<<"SELECT", "sqlite_master">>, JNull)
             ELSE IF method = "resources/read" THEN resources_read(req_id, params)
             ELSE method_not_found(req_id, method)

\* handle_mcp from the return of db_query to its own return
handle_mcp_end(req, q) ==
    LET method == Get(req.v, "method", "")
        req_id == Get(req.v, "id", None)
    IN  IF q.raised THEN Error(req_id, -32603, q.exc)
        ELSE IF method = "tools/call"
          THEN Result(req_id, [content |-> <<[type |-> "text", text |-> dumps(q.value)]>>,
                               isError |-> FALSE])
        ELSE IF method = "resources/list"
          THEN Result(req_id,
                 [resources |-> [i \in DOMAIN q.value |->
                     [uri |-> <<"sqlite:///", q.value[i].name>>,
                      name |-> q.value[i].name,
                      description |-> <<"SQLite table: ", q.value[i].name>>]]])
        ELSE Result(req_id, [contents |-> <<[type |-> "text", text |-> dumps(q.value)]>>])

\* The method names handle_mcp has a branch for
MethodNames == {"", "initialize", "tools/list", "tools/call", "resources/list",
                "resources/read", "ping", "prompts/list", "notifications/initialized"}

DispatchedMethods ==
    {m \in MethodNames :
        LET b == handle_mcp_begin(Obj([method |-> m, id |-> "1"]), TOOLS_AT_IMPORT)
        IN ~(b.tag = "return" /\ "error" \in DOMAIN b.resp /\ b.resp.error.code = -32601)}

(***************************************************************************)
(* The POST requests clients send                                          *)
(***************************************************************************)
Queries ==
    { <<"SELECT", "customers">>,
      <<" ", "select", "customers", " ">>,
      <<"DELETE", "customers">>,
      <<"DROP", "customers">>,
      <<"CREATE", "customers">>,
      <<"INSERT", "customers", "?">>,
      <<"garbage">>,
      <<" ">> }

CallParams ==
    { Obj([name |-> "sql_query", arguments |-> Obj([query |-> q])]) : q \in Queries }
    \cup { Obj([name |-> "sql_query",
                arguments |-> Obj([query |-> <<"INSERT", "customers", "?">>,
                                   params |-> Arr(<<k>>)])]) : k \in RowKeys }
    \cup { Obj([name |-> "table_schema", arguments |-> Obj([table |-> t])]) :
              t \in {<<"customers">>, <<" ">>} }
    \cup { Obj([name |-> "sql_query"]),
           Obj([name |-> "sql_query", arguments |-> NonObj("string")]),
           Obj([name |-> "list_tables"]),
           Obj([name |-> "drop_database"]),
           Obj(EmptyDict),
           NonObj("string") }

ReadParams ==
    { Obj([uri |-> u]) : u \in {<<"sqlite:///", "customers">>, <<"sqlite:///", "missing">>,
                                <<"file:///", "customers">>} }
    \cup { Obj(EmptyDict) }

RpcObjects ==
    { [method |-> m, id |-> "1"] :
         m \in {"initialize", "tools/list", "resources/list", "ping"} }
    \cup { [id |-> "1"], [method |-> "tools/list"],
           [method |-> "notifications/initialized", params |-> NonObj("string")] }
    \cup { [method |-> "tools/call", id |-> "1", params |-> p] : p \in CallParams }
    \cup { [method |-> "resources/read", id |-> "1", params |-> p] : p \in ReadParams }

Bodies ==
    { NonObj("invalid"),                            \* json.loads raises
      NonObj("array"), NonObj("null") }
    \cup { Obj(r) : r \in RpcObjects }

HttpRequests ==
    { [path |-> "/mcp", length |-> "ok", body |-> b] : b \in Bodies }
    \cup { [path |-> "/", length |-> "ok", body |-> Obj([method |-> "tools/list", id |-> "1"])],
           [path |-> "/sse", length |-> "ok", body |-> Obj([method |-> "tools/list", id |-> "1"])],
           [path |-> "/mcp", length |-> "abc", body |-> Obj([method |-> "tools/list", id |-> "1"])] }

(***************************************************************************)
(* MCPHandler.do_POST, run by HTTPServer.serve_forever                     *)
(***************************************************************************)
ConnIds == 1 .. MaxConns

NoCall == Calls(<<>>, JNull)

\* A handler: one MCPHandler instance serving one connection.
\*   status   the HTTP status of its response (0: it has none)
\*   body     the JSON of its response
\*   written  the response has been written to the connection
\*   exc      the exception raised while serving, <<>> if none
\*   dbCalls  the number of db_query calls made
Handler(c, r) ==
    [conn |-> c, req |-> r, pc |-> "do_POST", status |-> 0, body |-> EmptyDict,
     written |-> FALSE, exc |-> <<>>, call |-> NoCall, dbCalls |-> 0]

NoHandler ==
    [conn |-> 0, req |-> [path |-> "", length |-> "ok", body |-> NonObj("invalid")],
     pc |-> "none", status |-> 0, body |-> EmptyDict, written |-> FALSE, exc |-> <<>>,
     call |-> NoCall, dbCalls |-> 0]

\* do_POST from its first line to the first database call of handle_mcp
do_POST_begin(h, tools) ==
    IF h.req.path \notin {"/", "/mcp"}
      THEN [h EXCEPT !.pc = "respond", !.status = 404, !.body = [error |-> "Not found"]]
    ELSE IF h.req.length # "ok"                \* int(Content-Length) raises ValueError
      THEN [h EXCEPT !.pc = "escaped", !.exc = <<"invalid literal for int()">>]
    ELSE IF h.req.body.t = "invalid"
      THEN [h EXCEPT !.pc = "respond", !.status = 400, !.body = [error |-> "Invalid JSON"]]
    ELSE LET b == handle_mcp_begin(h.req.body, tools)
         IN  IF b.tag = "escape" THEN [h EXCEPT !.pc = "escaped", !.exc = b.exc]
             ELSE IF b.tag = "db_query"
               THEN [h EXCEPT !.pc = "db_connect", !.call = b]
             ELSE [h EXCEPT !.pc = "respond", !.status = 200, !.body = b.resp,
                            !.exc = b.exc]

\* db_query returned (or raised) q: the rest of handle_mcp
do_POST_end(h, q) ==
    [h EXCEPT !.pc = "respond", !.status = 200, !.body = handle_mcp_end(h.req.body, q),
              !.exc = q.exc, !.call = NoCall]

\* A handler of initialize that keeps protocol state: it empties the tool
\* table until the client has negotiated
globals_after_negotiating(req, tools) ==
    IF req.t = "object" /\ Get(req.v, "method", "") = "initialize" THEN <<>> ELSE tools

\* What a call of handle_mcp does to the module globals: it only reads TOOLS.
globals_after(req, tools) == tools

\* One whole request served on a server with database d and globals tools
Serve(r, d, tools) ==
    LET h0 == do_POST_begin(Handler(0, r), tools)
        q == db_query(h0.call.sql, h0.call.params, d)
        h1 == IF h0.pc = "db_connect" THEN do_POST_end(h0, q) ELSE h0
    IN [status |-> h1.status, body |-> h1.body,
        db |-> IF h0.pc = "db_connect" THEN q.db ELSE d,
        TOOLS |-> IF h1.status = 200 THEN globals_after(r.body, tools) ELSE tools]

IsInitialize(r) ==
    /\ r.path \in {"/", "/mcp"} /\ r.length = "ok" /\ r.body.t = "object"
    /\ Get(r.body.v, "method", "") = "initialize"

\* A ThreadingHTTPServer: a handler thread per connection
CanAcceptThreaded(active) == TRUE

\* HTTPServer.process_request runs the handler to its end before the next accept
CanAccept(active) == active = {}

Databases ==
    [TableNames -> {NoTable} \cup {[exists |-> TRUE, rows |-> rs] : rs \in SUBSET RowKeys}]

\* The server process right after start, on the database d
ServerStarted(d) ==
    /\ db = d
    /\ TOOLS = TOOLS_AT_IMPORT
    /\ backlog = 0
    /\ inflight = {}
    /\ last = NoHandler
    /\ initialized = FALSE
    /\ twin = [db |-> db, TOOLS |-> TOOLS_AT_IMPORT, status |-> 0, body |-> EmptyDict]

\* A client connects; the connection waits in the listen queue
Connect ==
    /\ backlog + Cardinality(inflight) < MaxConns
    /\ backlog' = backlog + 1
    /\ UNCHANGED <<db, TOOLS, inflight, last, initialized, twin, poll, pipe, goc, demo, basic, conv, sk>>

\* serve_forever accepts a connection and the handler reads its request
Accept(r) ==
    /\ CanAccept(inflight)
    /\ backlog > 0
    /\ backlog' = backlog - 1
    /\ LET c == CHOOSE i \in ConnIds : \A h \in inflight : h.conn # i
       IN inflight' = inflight \cup {Handler(c, r)}
    /\ UNCHANGED <<db, TOOLS, last, initialized, twin, poll, pipe, goc, demo, basic, conv, sk>>

\* do_POST up to the response, the escaping exception or the database call
DoPost(h) ==
    /\ h.pc = "do_POST"
    /\ LET h2 == do_POST_begin(h, TOOLS)
       IN /\ inflight' = (inflight \ {h}) \cup {h2}
          /\ TOOLS' = IF h2.pc = "respond" /\ h2.status = 200
                        THEN globals_after(h.req.body, TOOLS) ELSE TOOLS
    /\ UNCHANGED <<db, backlog, last, initialized, twin, poll, pipe, goc, demo, basic, conv, sk>>

\* db_query: sqlite3.connect(DB_PATH)
DbConnect(h) ==
    /\ h.pc = "db_connect"
    /\ inflight' = (inflight \ {h}) \cup {[h EXCEPT !.pc = "db_execute", !.dbCalls = @ + 1]}
    /\ UNCHANGED <<db, TOOLS, backlog, last, initialized, twin, poll, pipe, goc, demo, basic, conv, sk>>

\* db_query: execute, fetch or commit, return; handle_mcp builds its response
DbExecute(h) ==
    /\ h.pc = "db_execute"
    /\ LET q == db_query(h.call.sql, h.call.params, db)
       IN /\ db' = q.db
          /\ inflight' = (inflight \ {h}) \cup {do_POST_end(h, q)}
          /\ TOOLS' = globals_after(h.req.body, TOOLS)
    /\ UNCHANGED <<backlog, last, initialized, twin, poll, pipe, goc, demo, basic, conv, sk>>

\* The handler is over: the server is free again, and the twin server is
\* given the same request unless it is an initialize.
Finish(h, h2) ==
    /\ inflight' = inflight \ {h}
    /\ last' = h2
    /\ initialized' = (initialized \/ (IsInitialize(h.req) /\ h2.written))
    /\ twin' = IF IsInitialize(h.req) THEN twin
               ELSE LET t == Serve(h.req, twin.db, twin.TOOLS)
                    IN [db |-> t.db, TOOLS |-> t.TOOLS, status |-> t.status, body |-> t.body]
    /\ UNCHANGED <<db, TOOLS, backlog, poll, pipe, goc, demo, basic, conv, sk>>

\* _set_headers and wfile.write: the response goes out, the connection closes
WriteResponse(h) ==
    /\ h.pc = "respond"
    /\ Finish(h, [h EXCEPT !.pc = "finished", !.written = TRUE])

\* An exception left do_POST: socketserver reports it and closes the
\* connection; nothing was written.
HandleError(h) ==
    /\ h.pc = "escaped"
    /\ Finish(h, [h EXCEPT !.pc = "finished"])

NextServer ==
    \/ Connect
    \/ \E r \in HttpRequests : Accept(r)
    \/ \E h \in inflight : DoPost(h)
    \/ \E h \in inflight : DbConnect(h)
    \/ \E h \in inflight : DbExecute(h)
    \/ \E h \in inflight : WriteResponse(h)
    \/ \E h \in inflight : HandleError(h)

(***************************************************************************)
(* Part 2: the run-status polling loops                                    *)
(*                                                                         *)
(* One script creates one run and waits for it.  The scripts are named by  *)
(* the function that holds the loop.                                       *)
(***************************************************************************)
MaxPolls == 3        \* status fetches followed in a loop that has no limit of its own
MaxTick == 2         \* seconds a sleep(1) can take on the event loop's clock

max_wait_time == 60  \* AzureAIFoundrySKAgent.get_response
max_attempts == 60   \* create_mcp_agent_with_sqlite

\* The run statuses the scripts test for
Waiting == {"queued", "in_progress", "requires_action"}
Terminal == {"completed", "failed", "cancelled", "expired"}

\* Scripts with a loop of the shape  while run.status in [...]: sleep(1); get
SleepGetScripts == {"test_agent_conversation", "analyze_data", "_execute_single_agent"}

\* Scripts that poll the run themselves
PollingScripts ==
    SleepGetScripts \cup {"process_request", "execute_run_with_monitoring", "get_response",
                          "create_mcp_agent_with_sqlite"}

\* Scripts that leave the polling to runs.create_and_process
ProcessScripts == {"run_single_step", "run_query", "search_documents"}

Scripts == PollingScripts \cup ProcessScripts

\* What the service can do to a run by itself
RunTransitions(st) ==
    CASE st = "queued" -> {"in_progress", "failed", "cancelled", "expired"}
      [] st = "in_progress" -> {"requires_action", "completed", "failed", "cancelled", "expired"}
      [] st = "requires_action" -> {"cancelled", "expired"}
      [] OTHER -> {}

\* runs.submit_tool_outputs: a run that waits for them goes on
AfterSubmit(st) == IF st = "requires_action" THEN "in_progress" ELSE st

\* A loop whose attempt limit is tested one fetch too late
KeepsPollingPastLimit(script, p) ==
    CASE script \in SleepGetScripts -> p.status \in {"queued", "in_progress"}
      [] script = "process_request" -> p.status \in Waiting
      [] script = "execute_run_with_monitoring" -> TRUE
      [] script = "get_response" -> p.status \in Waiting
      [] script = "create_mcp_agent_with_sqlite" ->
            p.status \in Waiting /\ p.attempts <= max_attempts
      [] OTHER -> FALSE

\* A loop that waits only while the run is queued
KeepsPollingWhileQueued(script, p) == p.status = "queued"

\* The loop condition of each script, on the status it last observed
KeepsPolling(script, p) ==
    CASE script \in SleepGetScripts -> p.status \in {"queued", "in_progress"}
      [] script = "process_request" -> p.status \in Waiting
      [] script = "execute_run_with_monitoring" -> TRUE
      [] script = "get_response" -> p.status \in Waiting
      [] script = "create_mcp_agent_with_sqlite" ->
            p.status \in Waiting /\ p.attempts < max_attempts
      [] OTHER -> FALSE

\* The statuses after which each script reads the assistant's reply
\* (messages.list) once its wait is over
ReadsReply(script, status) ==
    CASE script \in {"create_mcp_agent_with_sqlite", "run_single_step", "run_query"} ->
            status # "failed"
      [] OTHER -> status = "completed"

IdlePoll ==
    [script |-> "", pc |-> "idle", status |-> "", svc |-> "", attempts |-> 0, elapsed |-> 0,
     fetches |-> 0, slept |-> FALSE, backToBack |-> FALSE, timedOut |-> FALSE,
     replyRead |-> FALSE]

InitPoll == poll = IdlePoll

\* time.sleep(1) / asyncio.sleep(1)
Sleep(p, d) == [p EXCEPT !.slept = TRUE, !.elapsed = @ + d]

\* runs.get: the script sees the status the service holds
GetRun(p) ==
    [p EXCEPT !.status = p.svc, !.fetches = @ + 1, !.slept = FALSE,
              !.backToBack = @ \/ (p.fetches >= 1 /\ ~p.slept)]

\* runs.create: the service queues the run
StartPolling(s) ==
    /\ poll.pc = "idle"
    /\ s \in PollingScripts
    /\ poll' = [IdlePoll EXCEPT !.script = s, !.pc = "loop", !.status = "queued",
                                !.svc = "queued"]
    /\ UNCHANGED <<db, TOOLS, backlog, inflight, last, initialized, twin, pipe, goc, demo, basic, conv, sk>>

\* runs.create_and_process: the SDK waits for the run and returns it ended
StartProcessed(s, st) ==
    /\ poll.pc = "idle"
    /\ s \in ProcessScripts
    /\ st \in Terminal
    /\ poll' = [IdlePoll EXCEPT !.script = s, !.pc = "after", !.status = st, !.svc = st]
    /\ UNCHANGED <<db, TOOLS, backlog, inflight, last, initialized, twin, pipe, goc, demo, basic, conv, sk>>

\* The service moves the run on while the script waits
ServiceAdvance(st) ==
    /\ poll.pc = "loop"
    /\ st \in RunTransitions(poll.svc)
    /\ poll' = [poll EXCEPT !.svc = st]
    /\ UNCHANGED <<db, TOOLS, backlog, inflight, last, initialized, twin, pipe, goc, demo, basic, conv, sk>>

\* while run.status in ["queued", "in_progress"]: sleep(1); run = get(...)
IterateSleepGet ==
    /\ poll.pc = "loop"
    /\ poll.script \in SleepGetScripts
    /\ KeepsPolling(poll.script, poll)
    /\ poll.fetches < MaxPolls
    /\ poll' = GetRun(Sleep(poll, 1))
    /\ UNCHANGED <<db, TOOLS, backlog, inflight, last, initialized, twin, pipe, goc, demo, basic, conv, sk>>

\* BusinessLogicAgent.process_request: submit the tool outputs when asked,
\* then fetch the run again
IterateProcessRequest ==
    /\ poll.pc = "loop"
    /\ poll.script = "process_request"
    /\ KeepsPolling(poll.script, poll)
    /\ poll.fetches < MaxPolls
    /\ LET p == IF poll.status = "requires_action"
                  THEN [poll EXCEPT !.svc = AfterSubmit(@)] ELSE poll
       IN poll' = GetRun(p)
    /\ UNCHANGED <<db, TOOLS, backlog, inflight, last, initialized, twin, pipe, goc, demo, basic, conv, sk>>

\* ConversationManager.execute_run_with_monitoring: while True: get; handle
\* requires_action, break on an ended run; sleep(1)
IterateMonitoring ==
    /\ poll.pc = "loop"
    /\ poll.script = "execute_run_with_monitoring"
    /\ KeepsPolling(poll.script, poll)
    /\ poll.fetches < MaxPolls
    /\ LET p == GetRun(poll)
       IN poll' = IF p.status = "requires_action"
                    THEN Sleep([p EXCEPT !.svc = AfterSubmit(@)], 1)
                  ELSE IF p.status \in {"completed", "failed", "cancelled", "expired"}
                    THEN [p EXCEPT !.pc = "after"]
                  ELSE Sleep(p, 1)
    /\ UNCHANGED <<db, TOOLS, backlog, inflight, last, initialized, twin, pipe, goc, demo, basic, conv, sk>>

\* AzureAIFoundrySKAgent.get_response: give up after max_wait_time, else
\* sleep(1), get, and break on requires_action
IterateGetResponse(d) ==
    /\ poll.pc = "loop"
    /\ poll.script = "get_response"
    /\ KeepsPolling(poll.script, poll)
    /\ poll' = IF poll.elapsed > max_wait_time
                 THEN [poll EXCEPT !.pc = "done", !.timedOut = TRUE]
               ELSE LET p == GetRun(Sleep(poll, d))
                    IN IF p.status = "requires_action" THEN [p EXCEPT !.pc = "after"] ELSE p
    /\ UNCHANGED <<db, TOOLS, backlog, inflight, last, initialized, twin, pipe, goc, demo, basic, conv, sk>>

\* create_mcp_agent_with_sqlite: sleep(1); attempts += 1; get
IterateMcpScenario ==
    /\ poll.pc = "loop"
    /\ poll.script = "create_mcp_agent_with_sqlite"
    /\ KeepsPolling(poll.script, poll)
    /\ poll' = GetRun([Sleep(poll, 1) EXCEPT !.attempts = @ + 1])
    /\ UNCHANGED <<db, TOOLS, backlog, inflight, last, initialized, twin, pipe, goc, demo, basic, conv, sk>>

\* The loop condition is false: the loop is left
ExitLoop ==
    /\ poll.pc = "loop"
    /\ ~KeepsPolling(poll.script, poll)
    /\ poll' = [poll EXCEPT !.pc = "after",
                            !.timedOut = (poll.script = "create_mcp_agent_with_sqlite"
                                          /\ poll.attempts >= max_attempts
                                          /\ poll.status \in Waiting)]
    /\ UNCHANGED <<db, TOOLS, backlog, inflight, last, initialized, twin, pipe, goc, demo, basic, conv, sk>>

\* The code after the wait: the status test and, behind it, messages.list
AfterWait ==
    /\ poll.pc = "after"
    /\ poll' = [poll EXCEPT !.pc = "done", !.replyRead = ReadsReply(poll.script, poll.status)]
    /\ UNCHANGED <<db, TOOLS, backlog, inflight, last, initialized, twin, pipe, goc, demo, basic, conv, sk>>

NextPoll ==
    \/ \E s \in Scripts : StartPolling(s)
    \/ \E s \in Scripts, st \in Terminal : StartProcessed(s, st)
    \/ \E st \in Waiting \cup Terminal : ServiceAdvance(st)
    \/ IterateSleepGet
    \/ IterateProcessRequest
    \/ IterateMonitoring
    \/ \E d \in 1 .. MaxTick : IterateGetResponse(d)
    \/ IterateMcpScenario
    \/ ExitLoop
    \/ AfterWait

(***************************************************************************)
(* Part 3: the sequential agents pipeline (exercise_2.2)                   *)
(***************************************************************************)
MaxAgentMessages == 2   \* messages a run adds to its thread
MaxTextItems == 2       \* text items in one message

product_description ==
    "An eco-friendly stainless steel water bottle that keeps drinks cold for 24 hours"

\* Text values an agent can write ("" is an empty text)
AgentTexts == {"", "copy A", "copy B"}

\* The order of the run_single_step calls in main
PipelineAgents == <<"concept_extractor_agent", "writer_agent", "editor_agent">>

RECURSIVE SeqsUpTo(_, _)
SeqsUpTo(S, n) ==
    IF n = 0 THEN {<<>>}
    ELSE LET shorter == SeqsUpTo(S, n - 1)
         IN shorter \cup {Append(q, x) : q \in shorter, x \in S}

\* A message: its role and its text_messages (none for a message that holds
\* only images or files)
AgentMessages == {[role |-> "agent", texts |-> t] : t \in SeqsUpTo(AgentTexts, MaxTextItems)}

\* What a run can add to its thread
AddedMessages == SeqsUpTo(AgentMessages, MaxAgentMessages)

UserMessage(content) == [role |-> "user", texts |-> <<content>>]

\* A loop that forgets the role test
latest_of_any_role(messages, latest) ==
    LET WithText == {i \in DOMAIN messages : messages[i].texts # <<>>}
    IN IF WithText = {} THEN latest
       ELSE LET m == messages[CHOOSE i \in WithText : \A j \in WithText : j <= i]
            IN m.texts[Len(m.texts)]

\* for m in messages: if m.role == AGENT and m.text_messages:
\*     latest = m.text_messages[-1].text.value
RECURSIVE latest_agent_text(_, _)
latest_agent_text(messages, latest) ==
    IF messages = <<>> THEN latest
    ELSE LET m == Head(messages)
         IN latest_agent_text(Tail(messages),
                IF m.role = "agent" /\ m.texts # <<>> THEN m.texts[Len(m.texts)] ELSE latest)

\* run_single_step after create_and_process returned: raise or return
run_single_step_result(status, messages) ==
    IF status = "failed" THEN [outcome |-> "raised", value |-> None]
    ELSE LET latest == latest_agent_text(messages, None)
         IN IF latest = None \/ latest = ""           \* if not latest
              THEN [outcome |-> "raised", value |-> None]
              ELSE [outcome |-> "returned", value |-> latest]

\* A main that hands every step the product description
step_input_always_seed(k, outputs) == product_description

\* The input main hands to its k-th run_single_step call
step_input(k, outputs) == IF k = 1 THEN product_description ELSE outputs[k - 1]

NoStep == [agent |-> "", input |-> "", status |-> "", thread |-> <<>>, outcome |-> "",
           value |-> None]

InitPipeline ==
    pipe = [pc |-> "main", calls |-> <<>>, outputs |-> <<>>, thread |-> <<>>,
            status |-> "", step |-> NoStep, raisedAt |-> 0]

\* main calls run_single_step: a new thread with the input as its user message
StepBegin ==
    /\ pipe.pc = "main"
    /\ Len(pipe.outputs) = Len(pipe.calls)
    /\ Len(pipe.calls) < Len(PipelineAgents)
    /\ LET k == Len(pipe.calls) + 1
           input == step_input(k, pipe.outputs)
       IN pipe' = [pipe EXCEPT !.pc = "create_and_process",
                               !.calls = Append(@, [agent |-> PipelineAgents[k], input |-> input]),
                               !.thread = <<UserMessage(input)>>,
                               !.status = "queued", !.step = NoStep]
    /\ UNCHANGED <<db, TOOLS, backlog, inflight, last, initialized, twin, poll, goc, demo, basic, conv, sk>>

\* runs.create_and_process: the service runs the agent on the thread
RunProcessed ==
    /\ pipe.pc = "create_and_process"
    /\ \E added \in AddedMessages, st \in Terminal :
          pipe' = [pipe EXCEPT !.pc = "processed", !.thread = @ \o added, !.status = st]
    /\ UNCHANGED <<db, TOOLS, backlog, inflight, last, initialized, twin, poll, goc, demo, basic, conv, sk>>

\* The rest of run_single_step; main goes on only when it returned
StepEnd ==
    /\ pipe.pc = "processed"
    /\ LET k == Len(pipe.calls)
           r == run_single_step_result(pipe.status, pipe.thread)
           done == [agent |-> pipe.calls[k].agent, input |-> pipe.calls[k].input,
                    status |-> pipe.status, thread |-> pipe.thread,
                    outcome |-> r.outcome, value |-> r.value]
       IN pipe' = IF r.outcome = "raised"
                    THEN [pipe EXCEPT !.pc = "raised", !.step = done, !.raisedAt = k,
                                      !.thread = <<>>]
                    ELSE [pipe EXCEPT !.pc = IF k = Len(PipelineAgents) THEN "complete" ELSE "main",
                                      !.outputs = Append(@, r.value), !.step = done,
                                      !.thread = <<>>]
    /\ UNCHANGED <<db, TOOLS, backlog, inflight, last, initialized, twin, poll, goc, demo, basic, conv, sk>>

NextPipeline ==
    \/ StepBegin
    \/ RunProcessed
    \/ StepEnd

(***************************************************************************)
(* Part 4: get-or-create of a remote agent                                 *)
(***************************************************************************)
MaxAgents == 3     \* agents the service holds

\* Agent names of the three operations, and one of an unrelated script
ConversationAgent == "conversation-demo-agent"
SearchAgent == "document-search-agent"
FunctionAgent == "business-logic-agent"
OtherAgent == "Assistant"

AgentsBy ==
    [get_or_create_agent |-> ConversationAgent,
     DocumentProcessor_get_or_create_agent |-> SearchAgent,
     create_function_agent |-> FunctionAgent]

Count(agents, name) == Cardinality({i \in DOMAIN agents : agents[i] = name})

\* for agent in list_agents(): if agent.name == name: return agent
\* listing = [fails, seen]: the listing yields all agents, or raises once
\* it has yielded the first `seen` of them
find_agent(agents, name, listing) ==
    LET n == IF listing.fails THEN listing.seen ELSE Len(agents)
        hits == {i \in 1 .. n : agents[i] = name}
    IN IF hits # {} THEN [tag |-> "found", index |-> CHOOSE i \in hits : \A j \in hits : i <= j]
       ELSE IF listing.fails THEN [tag |-> "raised", index |-> 0]
       ELSE [tag |-> "absent", index |-> 0]

Listings(agents) ==
    {[fails |-> FALSE, seen |-> Len(agents)]}
    \cup {[fails |-> TRUE, seen |-> k] : k \in 0 .. Len(agents)}

\* exercise_3_conversation.get_or_create_agent: the listing is not guarded,
\* an exception leaves the function
get_or_create_agent(agents, name, listing) ==
    LET f == find_agent(agents, name, listing)
    IN IF f.tag = "found" THEN [agents |-> agents, outcome |-> "reused", index |-> f.index]
       ELSE IF f.tag = "raised" THEN [agents |-> agents, outcome |-> "raised", index |-> 0]
       ELSE [agents |-> Append(agents, name), outcome |-> "created", index |-> Len(agents) + 1]

\* DocumentProcessor.get_or_create_agent and
\* BusinessLogicAgent.create_function_agent: the listing is inside
\* try/except Exception, and create_agent follows the except block
get_or_create_guarded(agents, name, listing) ==
    LET f == find_agent(agents, name, listing)
    IN IF f.tag = "found" THEN [agents |-> agents, outcome |-> "reused", index |-> f.index]
       ELSE [agents |-> Append(agents, name), outcome |-> "created", index |-> Len(agents) + 1]

NoInvocation == [op |-> "", name |-> "", existed |-> FALSE, outcome |-> "", index |-> 0]

\* The service holds the agents a, none of them of a name the operations use
ServiceHolds(a) == goc = [agents |-> a, called |-> {}, last |-> NoInvocation]

Invoke(op, listing, r) ==
    /\ listing \in Listings(goc.agents)
    /\ Len(r.agents) <= MaxAgents
    /\ goc' = [agents |-> r.agents,
               called |-> IF r.outcome = "raised" THEN goc.called
                          ELSE goc.called \cup {AgentsBy[op]},
               last |-> [op |-> op, name |-> AgentsBy[op],
                         existed |-> Count(goc.agents, AgentsBy[op]) > 0,
                         outcome |-> r.outcome, index |-> r.index]]
    /\ UNCHANGED <<db, TOOLS, backlog, inflight, last, initialized, twin, poll, pipe, demo, basic, conv, sk>>

GetOrCreateAgent(listing) ==
    Invoke("get_or_create_agent", listing,
           get_or_create_agent(goc.agents, ConversationAgent, listing))

DocumentProcessorGetOrCreateAgent(listing) ==
    Invoke("DocumentProcessor_get_or_create_agent", listing,
           get_or_create_guarded(goc.agents, SearchAgent, listing))

CreateFunctionAgent(listing) ==
    Invoke("create_function_agent", listing,
           get_or_create_guarded(goc.agents, FunctionAgent, listing))

NextAgents ==
    \/ \E listing \in Listings(goc.agents) : GetOrCreateAgent(listing)
    \/ \E listing \in Listings(goc.agents) : DocumentProcessorGetOrCreateAgent(listing)
    \/ \E listing \in Listings(goc.agents) : CreateFunctionAgent(listing)

(***************************************************************************)
(* Part 5: the MCP analytics demo script (exercise_2_mcp_agents)           *)
(*                                                                         *)
(* A URL is the sequence of its parts; `s in url` and url.startswith(s)    *)
(* are taken on the parts.                                                 *)
(***************************************************************************)
DefaultUrl == <<"http://", "localhost", ":3000">>

\* Values of the environment variable MCP_SERVER_URL
Urls ==
    {DefaultUrl,
     <<"https://", "127.0.0.1", ":3000">>,
     <<"https://", "mcp.example.net">>,
     <<"http://", "mcp.example.net">>,
     <<"https://", "mcp.example.net", "/", "localhost">>,
     <<"https://", "LOCALHOST">>,
     <<"ftp://", "mcp.example.net">>,
     <<"mcp.example.net">>,
     <<"localhost">>,
     <<>>}

\* s in url
Contains(url, s) == \E i \in DOMAIN url : url[i] = s

\* url.startswith(s)
startswith(url, s) == Len(url) > 0 /\ url[1] = s

\* A check that looks at the scheme only
check_mcp_url_scheme_only(url) ==
    startswith(url, "https://") \/ startswith(url, "http://")

check_mcp_url(url) ==
    IF Contains(url, "localhost") \/ Contains(url, "127.0.0.1") THEN FALSE
    ELSE IF startswith(url, "https://") \/ startswith(url, "http://") THEN TRUE
    ELSE FALSE

\* What requests.get(f"{MCP_SERVER_URL}/health", timeout=5) can do: raise, or
\* return a response whose body is JSON or not
HealthOutcomes ==
    {[tag |-> "raised", status_code |-> 0, json |-> FALSE]}
    \cup {[tag |-> "response", status_code |-> c, json |-> j] : c \in {200, 404, 503},
                                                               j \in BOOLEAN}

\* test_mcp_connection: True only for status 200; response.json() is called
\* for the message and an exception anywhere gives False
test_mcp_connection(o) ==
    IF o.tag = "raised" THEN FALSE
    ELSE IF o.status_code = 200 THEN o.json
    ELSE FALSE

\* The four analytics scenarios
analytics_scenarios == <<"Revenue Analysis by Product Category", "Customer Order Patterns",
                         "Product Inventory Status", "Sales Trends Over Time">>

\* How one scenario can go, and the calls it makes on the agent service
ScenarioOutcomes ==
    {"messages.create raised", "runs.create raised", "failed", "failed server_error",
     "completed", "unexpected"}

ScenarioCalls(o) ==
    CASE o = "messages.create raised" -> <<"messages.create">>
      [] o = "runs.create raised" -> <<"messages.create", "runs.create">>
      [] o \in {"failed", "failed server_error"} ->
            <<"messages.create", "runs.create", "runs.get">>
      [] OTHER -> <<"messages.create", "runs.create", "runs.get", "messages.list">>

\* test_mcp_capabilities is called for a run that failed with server_error
ScenarioGets(o) ==
    IF o = "failed server_error"
      THEN <<[path |-> "/capabilities", outcome |-> [tag |-> "raised", status_code |-> 0,
                                                     json |-> FALSE]]>>
    ELSE <<>>

Started(url) ==
    [url |-> url, pc |-> "main", exited |-> FALSE, code |-> 0, gets |-> <<>>,
     contacts |-> <<>>, scenario |-> 0]

InitDemo == demo = Started(DefaultUrl)

\* exit(1)
Exit1(d) == [d EXCEPT !.pc = "exited", !.exited = TRUE, !.code = 1]

\* if not check_mcp_url(): exit(1)
CheckMcpUrl ==
    /\ demo.pc = "main"
    /\ demo' = IF check_mcp_url(demo.url) THEN [demo EXCEPT !.pc = "test"] ELSE Exit1(demo)
    /\ UNCHANGED <<db, TOOLS, backlog, inflight, last, initialized, twin, poll, pipe, goc, basic, conv, sk>>

\* if not test_mcp_connection(): exit(1)
TestMcpConnection ==
    /\ demo.pc = "test"
    /\ \E o \in HealthOutcomes :
          LET d == [demo EXCEPT !.gets = Append(@, [path |-> "/health", outcome |-> o])]
          IN demo' = IF test_mcp_connection(o) THEN [d EXCEPT !.pc = "create_agent"]
                     ELSE Exit1(d)
    /\ UNCHANGED <<db, TOOLS, backlog, inflight, last, initialized, twin, poll, pipe, goc, basic, conv, sk>>

\* create_mcp_agent_with_sqlite up to the scenarios: create_agent, then
\* threads.create; an exception of either reaches the except of __main__,
\* which prints it and lets the script end
CreateAgentAndThread ==
    /\ demo.pc = "create_agent"
    /\ \E raisedAt \in {"create_agent", "threads.create", "none"} :
          demo' = IF raisedAt = "create_agent"
                    THEN [demo EXCEPT !.pc = "ended", !.contacts = @ \o <<"create_agent">>]
                  ELSE IF raisedAt = "threads.create"
                    THEN [demo EXCEPT !.pc = "ended",
                                      !.contacts = @ \o <<"create_agent", "threads.create">>]
                  ELSE [demo EXCEPT !.pc = "scenarios",
                                    !.contacts = @ \o <<"create_agent", "threads.create">>]
    /\ UNCHANGED <<db, TOOLS, backlog, inflight, last, initialized, twin, poll, pipe, goc, basic, conv, sk>>

\* One pass of  for scenario in analytics_scenarios
RunScenario ==
    /\ demo.pc = "scenarios"
    /\ \E o \in ScenarioOutcomes :
          LET k == demo.scenario + 1
              d == [demo EXCEPT !.scenario = k, !.contacts = @ \o ScenarioCalls(o),
                                !.gets = @ \o ScenarioGets(o)]
          IN demo' = IF o = "messages.create raised" \/ k = Len(analytics_scenarios)
                       THEN [d EXCEPT !.pc = "ended"]
                     ELSE d
    /\ UNCHANGED <<db, TOOLS, backlog, inflight, last, initialized, twin, poll, pipe, goc, basic, conv, sk>>

NextDemo ==
    \/ CheckMcpUrl
    \/ TestMcpConnection
    \/ CreateAgentAndThread
    \/ RunScenario

(***************************************************************************)
(* Part 6: BasicMCPServer (exercise_1_mocking_mcp_server)                  *)
(***************************************************************************)
\* self.tools after _register_tools, in insertion order
registered_tools ==
    << [name |-> "echo", description |-> "Echo back the input text", required |-> <<"text">>],
       [name |-> "calculate", description |-> "Perform basic arithmetic calculations",
        required |-> <<"expression">>],
       [name |-> "current_time", description |-> "Get the current date and time",
        required |-> <<>>] >>

\* self.resources after _register_resources
registered_resources ==
    << [uri |-> "mcp://server/info", name |-> "Server Information",
        description |-> "Information about this MCP server", mimeType |-> "application/json"],
       [uri |-> "mcp://server/tools", name |-> "Available Tools",
        description |-> "List of all available tools", mimeType |-> "application/json"] >>

\* BasicMCPServer.__init__
NewBasicMCPServer == [tools |-> <<>>, resources |-> <<>>]

\* The response of the except branch of handle_request
InternalError(request_id, exc) ==
    [jsonrpc |-> "2.0", id |-> request_id,
     error |-> [code |-> -32603, message |-> "Internal error", data |-> exc]]

\* What a called method does: it returns a value, raises an Exception, or
\* raises a BaseException that no `except Exception` catches
Value(v) == [tag |-> "value", value |-> v, exc |-> <<>>]
Raise(exc) == [tag |-> "Exception", value |-> None, exc |-> exc]
RaiseBase(exc) == [tag |-> "BaseException", value |-> None, exc |-> exc]

\* Expressions sent to the calculate tool, as token sequences
Expressions == {<<"2", "+", "3", "*", "4">>, <<"1", "/", "0">>, <<"exit", "(", ")">>, <<>>}

\* eval(expression) on these expressions: it runs the expression as Python
eval(expression) ==
    CASE expression = <<"2", "+", "3", "*", "4">> -> Value("14")
      [] expression = <<"1", "/", "0">> -> Raise(<<"division by zero">>)
      [] expression = <<"exit", "(", ")">> -> RaiseBase(<<"SystemExit">>)
      [] OTHER -> Raise(<<"invalid syntax">>)

\* _execute_echo
execute_echo(arguments) ==
    IF arguments.t # "object" THEN Raise(NoGet)
    ELSE Value(<<"Echo: ", Get(arguments.v, "text", "")>>)

\* _execute_calculate: arguments.get is before the try; the except around
\* eval catches Exception only
execute_calculate(arguments) ==
    IF arguments.t # "object" THEN Raise(NoGet)
    ELSE LET r == eval(Get(arguments.v, "expression", <<>>))
         IN CASE r.tag = "value" -> Value(<<"Result: ", r.value>>)
              [] r.tag = "Exception" -> Value(<<"Error: ", r.exc>>)
              [] OTHER -> r

\* _execute_current_time
execute_current_time(arguments, now) == Value(<<"Current time: ", now>>)

ToolNames(tools) == {tools[i].name : i \in DOMAIN tools}

\* A call_tool whose table of tools lacks the current_time branch
call_tool_without_current_time(server, params, now) ==
    IF params.t # "object" THEN Raise(NoGet)
    ELSE LET tool_name == Get(params.v, "name", None)
             arguments == Get(params.v, "arguments", Obj(EmptyDict))
             result == CASE tool_name = "echo" -> execute_echo(arguments)
                         [] tool_name = "calculate" -> execute_calculate(arguments)
                         [] OTHER -> Raise(<<"Tool not implemented: ", tool_name>>)
         IN  IF tool_name \notin ToolNames(server.tools)
               THEN Raise(<<"Unknown tool: ", tool_name>>)
             ELSE IF result.tag # "value" THEN result
             ELSE Value([content |-> <<[type |-> "text", text |-> result.value]>>])

\* call_tool
call_tool(server, params, now) ==
    IF params.t # "object" THEN Raise(NoGet)
    ELSE LET tool_name == Get(params.v, "name", None)
             arguments == Get(params.v, "arguments", Obj(EmptyDict))
             result == CASE tool_name = "echo" -> execute_echo(arguments)
                         [] tool_name = "calculate" -> execute_calculate(arguments)
                         [] tool_name = "current_time" -> execute_current_time(arguments, now)
                         [] OTHER -> Raise(<<"Tool not implemented: ", tool_name>>)
         IN  IF tool_name \notin ToolNames(server.tools)
               THEN Raise(<<"Unknown tool: ", tool_name>>)
             ELSE IF result.tag # "value" THEN result
             ELSE Value([content |-> <<[type |-> "text", text |-> result.value]>>])

\* read_resource
read_resource(server, params) ==
    IF params.t # "object" THEN Raise(NoGet)
    ELSE LET uri == Get(params.v, "uri", None)
             content == IF uri = "mcp://server/info"
                          THEN <<[name |-> "BasicMCPServer", version |-> "1.0.0",
                                  description |-> "A basic MCP server for learning",
                                  uptime |-> "N/A"]>>
                          ELSE server.tools
         IN IF uri \notin {"mcp://server/info", "mcp://server/tools"}
              THEN Raise(<<"Unknown resource URI: ", uri>>)
            ELSE Value([contents |-> <<[uri |-> uri, mimeType |-> "application/json",
                                        text |-> dumps(content)]>>])

\* initialize: registers the tools and resources and returns the capabilities
initialize_result ==
    [protocolVersion |-> "2024-11-05",
     serverInfo |-> [name |-> "BasicMCPServer", version |-> "1.0.0"],
     capabilities |-> [tools |-> [listChanged |-> TRUE],
                       resources |-> [subscribe |-> TRUE, listChanged |-> TRUE]]]

\* handle_request: the routing, then the result or the except branch
handle_request(server, request, now) ==
    IF request.t # "object"
      \* request.get raises inside the try and again in the except branch
      THEN [server |-> server, tag |-> "escaped", response |-> EmptyDict, exc |-> NoGet]
    ELSE LET method == Get(request.v, "method", None)
             params == Get(request.v, "params", Obj(EmptyDict))
             request_id == Get(request.v, "id", None)
             registered == [tools |-> registered_tools, resources |-> registered_resources]
             r == CASE method = "initialize" -> Value(initialize_result)
                    [] method = "tools/list" -> Value([tools |-> server.tools])
                    [] method = "tools/call" -> call_tool(server, params, now)
                    [] method = "resources/list" -> Value([resources |-> server.resources])
                    [] method = "resources/read" -> read_resource(server, params)
                    [] OTHER -> Raise(<<"Unknown method: ", method>>)
             after == IF method = "initialize" THEN registered ELSE server
         IN CASE r.tag = "value" ->
                   [server |-> after, tag |-> "returned",
                    response |-> Result(request_id, r.value), exc |-> <<>>]
              [] r.tag = "Exception" ->
                   [server |-> after, tag |-> "returned",
                    response |-> InternalError(request_id, r.exc), exc |-> r.exc]
              [] OTHER ->
                   [server |-> after, tag |-> "escaped", response |-> EmptyDict,
                    exc |-> r.exc]

\* Values of datetime.now()
Times == {"2025-01-01 10:00:00", "2025-01-01 10:00:01"}

\* params of the tools/call requests
BasicCallParams ==
    { Obj([name |-> "echo", arguments |-> Obj([text |-> "Hello, MCP!"])]),
      Obj([name |-> "echo", arguments |-> Obj(EmptyDict)]),
      Obj([name |-> "echo"]),
      Obj([name |-> "echo", arguments |-> JNull]),
      Obj([name |-> "calculate"]),
      Obj([name |-> "calculate", arguments |-> NonObj("string")]),
      Obj([name |-> "current_time", arguments |-> Obj(EmptyDict)]),
      Obj([name |-> "current_time", arguments |-> JNull]),
      Obj([name |-> "current_time"]),
      Obj([name |-> "weather", arguments |-> Obj(EmptyDict)]),
      Obj([arguments |-> Obj(EmptyDict)]),
      NonObj("array") }
    \cup { Obj([name |-> "calculate", arguments |-> Obj([expression |-> e])]) :
              e \in Expressions }

BasicReadParams ==
    { Obj([uri |-> u]) : u \in {"mcp://server/info", "mcp://server/tools", "mcp://server/x"} }
    \cup { Obj(EmptyDict), JNull }

\* The requests handed to handle_request; the id is an int, a string or absent
BasicRequests ==
    { Obj([jsonrpc |-> "2.0", id |-> i, method |-> m, params |-> Obj(EmptyDict)]) :
         i \in {"1", "abc"},
         m \in {"initialize", "tools/list", "resources/list", "prompts/list"} }
    \cup { Obj([jsonrpc |-> "2.0", method |-> m]) :
              m \in {"initialize", "tools/list", "notifications/initialized"} }
    \cup { Obj([jsonrpc |-> "2.0", id |-> "1"]), Obj(EmptyDict), NonObj("array") }
    \cup { Obj([jsonrpc |-> "2.0", id |-> "1", method |-> "tools/call", params |-> p]) :
              p \in BasicCallParams }
    \cup { Obj([jsonrpc |-> "2.0", method |-> "tools/call", params |-> p]) :
              p \in BasicCallParams }
    \cup { Obj([jsonrpc |-> "2.0", id |-> "1", method |-> "resources/read", params |-> p]) :
              p \in BasicReadParams }

NoBasicRequest ==
    [request |-> NonObj("none"), now |-> "", initialized |-> FALSE, tag |-> "none",
     response |-> EmptyDict, exc |-> <<>>]

\* tester = MCPServerTest(): a new server, nothing handled yet
InitBasic ==
    basic = [server |-> NewBasicMCPServer, initialized |-> FALSE, last |-> NoBasicRequest]

\* await self.server.handle_request(request)
HandleRequest ==
    \E request \in BasicRequests, now \in Times :
        LET h == handle_request(basic.server, request, now)
        IN basic' = [server |-> h.server,
                     initialized |-> basic.initialized
                                     \/ (request.t = "object"
                                         /\ Get(request.v, "method", None) = "initialize"),
                     last |-> [request |-> request, now |-> now,
                               initialized |-> basic.initialized, tag |-> h.tag,
                               response |-> h.response, exc |-> h.exc]]
           /\ UNCHANGED <<db, TOOLS, backlog, inflight, last, initialized, twin, poll, pipe, goc, demo, conv, sk>>

NextBasic == HandleRequest

(***************************************************************************)
(* Part 7: ConversationManager (exercise_3_conversation)                   *)
(*                                                                         *)
(* The agent service keeps the threads; a thread is the sequence of its    *)
(* messages in creation order, and the service gives every message a new   *)
(* id.  Time stamps are left out.                                          *)
(***************************************************************************)
MaxThreads == 2       \* threads.create calls followed
MaxMessages == 3      \* messages the service holds
MaxReplies == 2       \* assistant messages one run adds
MaxRuns == 2          \* runs followed

\* Names given to create_conversation
ConversationNames == {"Basic Q&A", "Tool Usage"}

Contents == {"Hello! Can you introduce yourself?"}

\* ConversationManager.__init__, and a service without threads
NewConversationManager ==
    [threads |-> <<>>, messages |-> 0, runs |-> 0,
     active_threads |-> [n \in {} |-> None], conversation_history |-> <<>>,
     added |-> 0, op |-> "__init__", before |-> 0]

InitConv == conv = NewConversationManager

\* The message ids in a history
MessageIds(history) == {history[i].message_id : i \in DOMAIN history}

\* messages.list(thread_id=...): the newest message first
RECURSIVE Reverse(_)
Reverse(s) == IF s = <<>> THEN <<>> ELSE Append(Reverse(Tail(s)), Head(s))

\* An update that appends every assistant message it is given
RECURSIVE update_history_unchecked(_, _, _, _)
update_history_unchecked(history, messages, thread_id, run_id) ==
    IF messages = <<>> THEN history
    ELSE LET message == Head(messages)
             entry == [role |-> "assistant", content |-> message.content,
                       message_id |-> message.id, thread_id |-> thread_id,
                       run_id |-> run_id]
         IN update_history_unchecked(
                IF message.role = "assistant" THEN Append(history, entry) ELSE history,
                Tail(messages), thread_id, run_id)

\* _update_history_with_response: for message in messages: an assistant
\* message whose id no history entry has is appended
RECURSIVE update_history_with_response(_, _, _, _)
update_history_with_response(history, messages, thread_id, run_id) ==
    IF messages = <<>> THEN history
    ELSE LET message == Head(messages)
             entry == [role |-> "assistant", content |-> message.content,
                       message_id |-> message.id, thread_id |-> thread_id,
                       run_id |-> run_id]
         IN update_history_with_response(
                IF message.role = "assistant" /\ message.id \notin MessageIds(history)
                  THEN Append(history, entry) ELSE history,
                Tail(messages), thread_id, run_id)

\* The loop of add_message over active_threads: the entry of the thread,
\* if there is one, counts the message
count_message(active_threads, thread_id) ==
    [n \in DOMAIN active_threads |->
        IF active_threads[n].thread_id = thread_id
          THEN [active_threads[n] EXCEPT !.message_count = @ + 1]
          ELSE active_threads[n]]

\* create_conversation(name)
CreateConversation ==
    /\ Len(conv.threads) < MaxThreads
    /\ \E name \in ConversationNames :
          LET thread_id == Len(conv.threads) + 1
              info == [thread_id |-> thread_id, message_count |-> 0]
          IN conv' = [conv EXCEPT
                 !.threads = Append(@, <<>>),
                 !.active_threads = [n \in DOMAIN @ \cup {name} |->
                                        IF n = name THEN info ELSE @[n]],
                 !.op = "create_conversation", !.before = Len(conv.conversation_history)]
    /\ UNCHANGED <<db, TOOLS, backlog, inflight, last, initialized, twin, poll, pipe, goc, demo, basic, sk>>

\* add_message(thread_id, content, role) on a thread create_conversation returned
AddMessage ==
    /\ conv.messages < MaxMessages
    /\ \E thread_id \in DOMAIN conv.threads, role \in {"user", "assistant"},
          content \in Contents :
          LET id == conv.messages + 1
              history_entry == [role |-> role, content |-> content, message_id |-> id,
                                thread_id |-> thread_id]
          IN conv' = [conv EXCEPT
                 !.messages = id,
                 !.threads[thread_id] = Append(@, [id |-> id, role |-> role,
                                                   content |-> content]),
                 !.conversation_history = Append(@, history_entry),
                 !.active_threads = count_message(@, thread_id),
                 !.added = @ + 1,
                 !.op = "add_message", !.before = Len(conv.conversation_history)]
    /\ UNCHANGED <<db, TOOLS, backlog, inflight, last, initialized, twin, poll, pipe, goc, demo, basic, sk>>

\* The assistant messages a run adds to its thread
RECURSIVE Replies(_, _)
Replies(first, n) ==
    IF n = 0 THEN <<>>
    ELSE <<[id |-> first, role |-> "assistant", content |-> "reply"]>>
         \o Replies(first + 1, n - 1)

\* execute_run_with_monitoring(thread_id, agent_id): the run ends in a status
\* (the loop is Part 2), having added its replies; the history is updated
\* when the run is completed
ExecuteRunWithMonitoring ==
    \E thread_id \in DOMAIN conv.threads, status \in Terminal, n \in 0 .. MaxReplies :
       /\ conv.runs < MaxRuns
       /\ conv.messages + n <= MaxMessages
       /\ LET run_id == conv.runs + 1
              thread == conv.threads[thread_id] \o Replies(conv.messages + 1, n)
          IN conv' = [conv EXCEPT
                 !.messages = @ + n,
                 !.runs = run_id,
                 !.threads[thread_id] = thread,
                 !.conversation_history =
                     IF status = "completed"
                       THEN update_history_with_response(@, Reverse(thread), thread_id, run_id)
                       ELSE @,
                 !.op = "execute_run_with_monitoring",
                 !.before = Len(conv.conversation_history)]
       /\ UNCHANGED <<db, TOOLS, backlog, inflight, last, initialized, twin, poll, pipe, goc, demo, basic, sk>>

NextConv ==
    \/ CreateConversation
    \/ AddMessage
    \/ ExecuteRunWithMonitoring

(***************************************************************************)
(* Part 8: SemanticKernelOrchestrator (exercise_2_semantic_kernel)         *)
(*                                                                         *)
(* demonstrate_orchestration registers the agents and runs the sequential, *)
(* the round-robin and the hybrid orchestration one after the other.  A    *)
(* turn is two steps, the call of get_response and the arrival of what it  *)
(* returns; sk.calls is the list of the calls made so far.  sk_agents is a *)
(* dict: the sequence of its keys in insertion order.  Time stamps are     *)
(* left out.                                                               *)
(***************************************************************************)
\* The names in agent_configs
agent_configs == <<"research-specialist", "analysis-specialist", "writing-specialist">>

agents_sequence ==
    <<[agent |-> "research-specialist", phase |-> "Research Phase"],
      [agent |-> "analysis-specialist", phase |-> "Analysis Phase"],
      [agent |-> "writing-specialist", phase |-> "Writing Phase"]>>

\* The phases of demonstrate_hybrid_orchestration
hybrid_phases ==
    <<[agent |-> "research-specialist", key |-> "research", prompt |-> "Research this topic: "],
      [agent |-> "analysis-specialist", key |-> "analysis", prompt |-> "Analyze these findings: "],
      [agent |-> "writing-specialist", key |-> "final_document",
       prompt |-> "Create executive briefing from: "]>>

num_rounds == 2

\* What get_response can return: the reply's text, or an error text
Responses == {<<"findings">>, <<"Error: Run ended with status ", "failed">>}

ChatMessageContent(role, content, name) == [role |-> role, content |-> content, name |-> name]

initial_message(topic, focus_area) ==
    <<"Create a comprehensive report on: ", topic, "Focus area: ",
      IF focus_area # "" THEN focus_area ELSE "General overview",
      "Please coordinate the following:", "1. Research the topic thoroughly",
      "2. Analyze the findings for insights",
      "3. Create a professional document with recommendations">>

\* current_message after a response
based_on(content) ==
    <<"Based on the previous work: ">> \o content
        \o <<"\n\nPlease continue with your specialized task.">>

\* AzureAIFoundrySKAgent.invoke: the message it passes to get_response
user_message(messages) ==
    LET users == {i \in DOMAIN messages : messages[i].role = "user"}
        last_user == IF users = {} THEN <<>>
                     ELSE messages[CHOOSE i \in users : \A j \in users : j <= i].content
    IN  IF last_user # <<>> THEN last_user
        ELSE IF messages # <<>> THEN messages[Len(messages)].content ELSE <<>>

\* The keys of sk_agents after create_azure_ai_foundry_agents, the configs in
\* failed having raised
registered(failed) == SelectSeq(agent_configs, LAMBDA name : name \notin failed)

Registered(sk_agents, name) == \E i \in DOMAIN sk_agents : sk_agents[i] = name

\* range(num_rounds) around the keys of sk_agents: the round and the agent of
\* the turn after t turns
turn_round_from_zero(t, n) == t \div n
turn_round(t, n) == (t \div n) + 1
turn_agent(t, n) == (t % n) + 1

NewOrchestrator ==
    [pc |-> "demonstrate_orchestration", sk_agents |-> <<>>, calls |-> <<>>,
     awaiting |-> FALSE, turn |-> 0, current_message |-> <<>>, results |-> <<>>,
     discussion |-> <<>>, messages_history |-> <<>>, hybrid |-> <<>>,
     raised_in |-> "", exc |-> <<>>]

InitSK == sk = NewOrchestrator

KeyError(s, name) ==
    [s EXCEPT !.raised_in = s.pc, !.pc = "raised", !.exc = <<"KeyError", name>>]

Call(s, agent, message) ==
    [s EXCEPT !.calls = Append(@, [orchestration |-> s.pc, agent |-> agent, message |-> message]),
              !.awaiting = TRUE]

\* create_azure_ai_foundry_agents, and what demonstrate_orchestration does with
\* an empty sk_agents
CreateAzureAiFoundryAgents ==
    /\ sk.pc = "demonstrate_orchestration"
    /\ \E failed \in SUBSET {agent_configs[i] : i \in DOMAIN agent_configs} :
           sk' = IF registered(failed) = <<>>
                 THEN [sk EXCEPT !.pc = "returned"]
                 ELSE [sk EXCEPT !.sk_agents = registered(failed),
                                 !.pc = "sequential",
                                 !.current_message =
                                     initial_message("AI in Healthcare", "Diagnostic imaging")]
    /\ UNCHANGED <<db, TOOLS, backlog, inflight, last, initialized, twin, poll, pipe, goc, demo, basic, conv>>

\* demonstrate_sequential_orchestration: self.sk_agents[agent_name] and
\* agent.invoke(messages)
SequentialInvoke ==
    /\ sk.pc = "sequential" /\ ~sk.awaiting
    /\ LET step == agents_sequence[sk.turn + 1]
       IN  sk' = IF ~Registered(sk.sk_agents, step.agent)
                 THEN KeyError(sk, step.agent)
                 ELSE Call(sk, step.agent,
                           user_message(<<ChatMessageContent("user", sk.current_message, None)>>))
    /\ UNCHANGED <<db, TOOLS, backlog, inflight, last, initialized, twin, poll, pipe, goc, demo, basic, conv>>

\* The response arrives; after the last agent the results are returned and
\* demonstrate_roundrobin_orchestration begins
SequentialResponse ==
    /\ sk.pc = "sequential" /\ sk.awaiting
    /\ \E content \in Responses :
        LET step == agents_sequence[sk.turn + 1]
            s == [sk EXCEPT !.awaiting = FALSE,
                            !.results = Append(@, [agent |-> step.agent, phase |-> step.phase,
                                                   content |-> content]),
                            !.current_message = based_on(content),
                            !.turn = @ + 1]
        IN  sk' = IF s.turn < Len(agents_sequence) THEN s
                  ELSE [s EXCEPT !.pc = "roundrobin", !.turn = 0,
                                 !.messages_history =
                                     <<ChatMessageContent("user",
                                           <<"Let's discuss: ", "Quantum Computing impact">>, None)>>]
    /\ UNCHANGED <<db, TOOLS, backlog, inflight, last, initialized, twin, poll, pipe, goc, demo, basic, conv>>

\* demonstrate_roundrobin_orchestration: agent.invoke(messages_history)
RoundRobinInvoke ==
    /\ sk.pc = "roundrobin" /\ ~sk.awaiting
    /\ sk.turn < num_rounds * Len(sk.sk_agents)
    /\ sk' = Call(sk, sk.sk_agents[turn_agent(sk.turn, Len(sk.sk_agents))],
                  user_message(sk.messages_history))
    /\ UNCHANGED <<db, TOOLS, backlog, inflight, last, initialized, twin, poll, pipe, goc, demo, basic, conv>>

\* The response arrives; after the last turn the discussion is returned and
\* demonstrate_hybrid_orchestration begins
RoundRobinResponse ==
    /\ sk.pc = "roundrobin" /\ sk.awaiting
    /\ \E content \in Responses :
        LET n == Len(sk.sk_agents)
            name == sk.sk_agents[turn_agent(sk.turn, n)]
            s == [sk EXCEPT !.awaiting = FALSE,
                            !.discussion = Append(@, [round |-> turn_round(sk.turn, n),
                                                      agent |-> name, content |-> content]),
                            !.messages_history =
                                Append(@, ChatMessageContent("assistant", content, name)),
                            !.turn = @ + 1]
        IN  sk' = IF s.turn < num_rounds * n THEN s
                  ELSE [s EXCEPT !.pc = "hybrid", !.turn = 0]
    /\ UNCHANGED <<db, TOOLS, backlog, inflight, last, initialized, twin, poll, pipe, goc, demo, basic, conv>>

\* demonstrate_hybrid_orchestration: self.sk_agents[...].get_response(...)
HybridInvoke ==
    /\ sk.pc = "hybrid" /\ ~sk.awaiting
    /\ LET phase == hybrid_phases[sk.turn + 1]
           previous == IF sk.turn = 0 THEN <<"Sustainable energy future">>
                       ELSE sk.hybrid[sk.turn].value
       IN  sk' = IF ~Registered(sk.sk_agents, phase.agent)
                 THEN KeyError(sk, phase.agent)
                 ELSE Call(sk, phase.agent, <<phase.prompt>> \o previous)
    /\ UNCHANGED <<db, TOOLS, backlog, inflight, last, initialized, twin, poll, pipe, goc, demo, basic, conv>>

\* The response arrives; after the last phase demonstrate_orchestration returns
HybridResponse ==
    /\ sk.pc = "hybrid" /\ sk.awaiting
    /\ \E content \in Responses :
        LET phase == hybrid_phases[sk.turn + 1]
            s == [sk EXCEPT !.awaiting = FALSE,
                            !.hybrid = Append(@, [key |-> phase.key, value |-> content]),
                            !.turn = @ + 1]
        IN  sk' = IF s.turn < Len(hybrid_phases) THEN s ELSE [s EXCEPT !.pc = "returned"]
    /\ UNCHANGED <<db, TOOLS, backlog, inflight, last, initialized, twin, poll, pipe, goc, demo, basic, conv>>

NextSK ==
    \/ CreateAzureAiFoundryAgents
    \/ SequentialInvoke
    \/ SequentialResponse
    \/ RoundRobinInvoke
    \/ RoundRobinResponse
    \/ HybridInvoke
    \/ HybridResponse

(***************************************************************************)
(* Specifications                                                          *)
(***************************************************************************)

EmptyDatabase == [t \in TableNames |-> NoTable]

\* The server starts on any database; nothing else runs
InitServer ==
    /\ \E d \in Databases : ServerStarted(d)
    /\ InitPoll /\ InitPipeline /\ InitDemo /\ InitBasic /\ InitConv /\ InitSK /\ ServiceHolds(<<>>)

SpecServer == InitServer /\ [][NextServer]_vars

Init ==
    /\ ServerStarted(EmptyDatabase)
    /\ InitPoll /\ InitPipeline /\ InitDemo /\ InitBasic /\ InitConv /\ InitSK /\ ServiceHolds(<<>>)

SpecPoll == Init /\ [][NextPoll]_vars

\* The script is a sequential program: a step it can take, it takes
ScriptStep ==
    \/ IterateSleepGet
    \/ IterateProcessRequest
    \/ IterateMonitoring
    \/ \E d \in 1 .. MaxTick : IterateGetResponse(d)
    \/ IterateMcpScenario
    \/ ExitLoop
    \/ AfterWait

SpecPollLive == Init /\ [][NextPoll]_vars /\ WF_vars(ScriptStep)

SpecPipeline == Init /\ [][NextPipeline]_vars

\* Parts 1 to 4 at rest
Parts1to4Idle ==
    /\ ServerStarted(EmptyDatabase)
    /\ InitPoll
    /\ InitPipeline
    /\ ServiceHolds(<<>>)

\* The demo is started with any value of MCP_SERVER_URL in the environment
InitDemoScript == Parts1to4Idle /\ InitBasic /\ InitConv /\ InitSK /\ \E u \in Urls : demo = Started(u)

SpecDemo == InitDemoScript /\ [][NextDemo]_vars

SpecBasic == Init /\ [][NextBasic]_vars

\* The two MCP servers are separate programs: a run is a run of one of them
HttpServerUntouched == backlog = 0 /\ inflight = {} /\ last = NoHandler
BasicServerUntouched == basic.last = NoBasicRequest

NextMcpServers ==
    \/ BasicServerUntouched /\ NextServer
    \/ HttpServerUntouched /\ NextBasic

SpecMcpServers == InitServer /\ [][NextMcpServers]_vars

SpecConv == Init /\ [][NextConv]_vars

SpecSK == Init /\ [][NextSK]_vars

\* The service may already hold another script's agent
InitAgents ==
    /\ ServerStarted(EmptyDatabase)
    /\ InitPoll /\ InitPipeline /\ InitDemo /\ InitBasic /\ InitConv /\ InitSK
    /\ \E a \in {<<>>, <<OtherAgent>>} : ServiceHolds(a)

SpecAgents == InitAgents /\ [][NextAgents]_vars

(***************************************************************************)
(* Part 1: claims about the SQLite MCP server                              *)
(***************************************************************************)
Served == last.pc = "finished"

ReqId(r) == IF r.body.t = "object" THEN Get(r.body.v, "id", None) ELSE None

\* C1 (as claimed): a POST to / or /mcp whose body parses as JSON always gets
\* a response, and an exception raised while serving it becomes the JSON-RPC
\* error -32603 with the exception text and the request's id.
C1_ExceptionsBecomeJsonErrors ==
    (Served /\ last.req.path \in {"/", "/mcp"} /\ last.req.body.t # "invalid") =>
        /\ last.written
        /\ last.exc # <<>> =>
              /\ last.status = 200
              /\ "error" \in DOMAIN last.body
              /\ last.body.error = [code |-> -32603, message |-> last.exc]
              /\ last.body.id = ReqId(last.req)

IsRpcObject(r) == r.path \in {"/", "/mcp"} /\ r.length = "ok" /\ r.body.t = "object"

UnknownMethod(r) ==
    IsRpcObject(r) /\ Get(r.body.v, "method", "") \notin DispatchedMethods

MethodNotFoundAnswered ==
    /\ \A h \in inflight : UnknownMethod(h.req) => h.pc \notin {"db_connect", "db_execute"}
    /\ (Served /\ UnknownMethod(last.req)) =>
          /\ last.written /\ last.status = 200 /\ last.dbCalls = 0
          /\ "error" \in DOMAIN last.body /\ "result" \notin DOMAIN last.body
          /\ last.body.error =
                [code |-> -32601,
                 message |-> <<"Method not found: ", Get(last.req.body.v, "method", "")>>]

\* C2 (as claimed): six method names are dispatched, and any other method
\* (or none) is answered -32601 without a SQLite call.
C2_SixMethodsDispatched ==
    /\ Cardinality(DispatchedMethods) = 6
    /\ MethodNotFoundAnswered

\* C2 (amended): five method names are dispatched, and a JSON-object request
\* with any other method (or none) is answered -32601 without a SQLite call.
C2_FiveMethodsDispatched ==
    /\ DispatchedMethods = {"initialize", "tools/list", "tools/call", "resources/list",
                            "resources/read"}
    /\ MethodNotFoundAnswered

C2_Witness ==
    /\ Served /\ last.written /\ last.req.body.t = "object"
    /\ "method" \notin DOMAIN last.req.body.v
    /\ "error" \in DOMAIN last.body /\ last.body.error.code = -32601
    /\ last.dbCalls = 0

\* C3: the server keeps no protocol state: handling requests leaves the
\* globals as they were at import, and every request other than initialize
\* gets the answer, and has the effect on the database, that it has on a
\* server that was never sent an initialize.
C3_NoProtocolState ==
    /\ TOOLS = TOOLS_AT_IMPORT
    /\ (Served /\ ~IsInitialize(last.req)) =>
          /\ last.written = (twin.status # 0)
          /\ last.status = twin.status
          /\ last.body = twin.body
    /\ inflight = {} => db = twin.db

C3_Witness ==
    /\ initialized /\ Served /\ last.written
    /\ IsRpcObject(last.req)
    /\ Get(last.req.body.v, "method", "") \in {"tools/list", "tools/call", "resources/list",
                                                 "resources/read"}
    /\ "result" \in DOMAIN last.body
    /\ last.body = twin.body

\* C4: requests are handled one at a time: while a handler has read its
\* request and is not over, no other handler exists, so at most one request
\* is between its database connect and its response.
C4_OneRequestAtATime ==
    /\ \A a, b \in inflight : a = b
    /\ Cardinality({h \in inflight : h.pc \in {"db_connect", "db_execute", "respond"}}) <= 1

C4_Witness ==
    /\ backlog > 0
    /\ Served /\ last.written /\ last.dbCalls = 1
    /\ \E h \in inflight : h.pc = "db_execute"

(***************************************************************************)
(* Part 2: claims about the polling loops                                  *)
(***************************************************************************)
LoopExited == poll.script \in PollingScripts /\ poll.pc \in {"after", "done"}

\* C5 (as claimed): whenever a polling loop exits, the last status it
\* observed is one of completed, failed, cancelled, expired.
C5_ExitsOnlyOnTerminal == LoopExited => poll.status \in Terminal

\* C5 (amended): whenever a polling loop exits without having hit its
\* timeout, the last status it observed is neither queued nor in_progress,
\* and in execute_run_with_monitoring it is one of completed, failed,
\* cancelled, expired; only get_response and create_mcp_agent_with_sqlite
\* have a timeout.
C5_ExitsOnlyOffQueue ==
    /\ (LoopExited /\ ~poll.timedOut) =>
          /\ poll.status \notin {"queued", "in_progress"}
          /\ poll.script = "execute_run_with_monitoring" => poll.status \in Terminal
    /\ poll.timedOut => poll.script \in {"get_response", "create_mcp_agent_with_sqlite"}

C5_Witness ==
    /\ LoopExited /\ ~poll.timedOut
    /\ poll.script = "test_agent_conversation"
    /\ poll.fetches >= 2
    /\ poll.status = "requires_action"

\* C6 (as claimed): between two consecutive status fetches of a run the
\* script sleeps (one second): no loop fetches back-to-back.
C6_SleepsBetweenFetches == ~poll.backToBack

\* C7 (as claimed): the reply is read from the thread only after the script
\* has observed the run completed.
C7_ReplyOnlyWhenCompleted == poll.replyRead => poll.status = "completed"

InMcpScenario == poll.script = "create_mcp_agent_with_sqlite"

\* C11: the polling of a scenario's run in the MCP demo fetches the run status
\* at most 60 times (once per attempt), whatever statuses the service
\* reports, and the polling always comes to its end.
C11_PollingTerminates ==
    /\ [](InMcpScenario => poll.fetches = poll.attempts /\ poll.fetches <= 60)
    /\ InMcpScenario ~> (InMcpScenario /\ poll.pc = "done")

C11_Witness ==
    /\ InMcpScenario /\ poll.pc = "done"
    /\ poll.timedOut /\ poll.fetches = 60
    /\ poll.status = "in_progress"

(***************************************************************************)
(* Part 3: claims about the sequential pipeline                            *)
(***************************************************************************)
\* C8: the pipeline runs concept extractor, writer, editor in that order;
\* a step starts only after the one before has returned; the first input is
\* the product description and every later input is exactly the output of
\* the step before; after a step has raised no step is started.
C8_FixedOrderPipeline ==
    /\ Len(pipe.calls) <= Len(PipelineAgents)
    /\ Len(pipe.outputs) <= Len(pipe.calls) /\ Len(pipe.calls) <= Len(pipe.outputs) + 1
    /\ \A i \in DOMAIN pipe.calls :
          /\ pipe.calls[i].agent =
                <<"concept_extractor_agent", "writer_agent", "editor_agent">>[i]
          /\ pipe.calls[i].input = IF i = 1 THEN product_description ELSE pipe.outputs[i - 1]
    /\ pipe.raisedAt # 0 =>
          /\ pipe.pc = "raised"
          /\ Len(pipe.calls) = pipe.raisedAt /\ Len(pipe.outputs) = pipe.raisedAt - 1
    /\ pipe.pc = "complete" => Len(pipe.outputs) = 3

C8_Witness ==
    /\ pipe.pc = "complete"
    /\ pipe.outputs[1] # pipe.outputs[2]
    /\ pipe.calls[3].input = pipe.outputs[2]

\* The agent messages of a thread that have text content
AgentTextIndexes(thread) ==
    {i \in DOMAIN thread : thread[i].role = "agent" /\ Len(thread[i].texts) > 0}

\* C9: run_single_step returns the text of the last agent message with text
\* content of its own new thread; it raises when the run failed or when the
\* thread holds no agent text message; it never returns an empty or missing
\* value.
C9_ReturnsLastAgentText ==
    pipe.step # NoStep =>
        LET st == pipe.step
            idx == AgentTextIndexes(st.thread)
        IN /\ st.thread[1] = UserMessage(st.input)
           /\ st.status = "failed" => st.outcome = "raised"
           /\ idx = {} => st.outcome = "raised"
           /\ st.outcome = "returned" =>
                 /\ st.value \notin {None, ""}
                 /\ \E i \in idx :
                       /\ \A j \in idx : j <= i
                       /\ st.value = st.thread[i].texts[Len(st.thread[i].texts)]

C9_Witness ==
    /\ pipe.step.outcome = "returned"
    /\ Cardinality(AgentTextIndexes(pipe.step.thread)) >= 2
    /\ Len(pipe.step.thread) = 3
    /\ pipe.step.thread[2].texts # pipe.step.thread[3].texts
    /\ pipe.step.status # "completed"

(***************************************************************************)
(* Part 4: claims about get-or-create                                      *)
(***************************************************************************)
\* C10 (as claimed): an existing agent of the target name is reused and one
\* is created only when none exists, so from a service without an agent of
\* that name any number of invocations leaves exactly one.
C10_ExactlyOneAgentPerName ==
    /\ \A n \in goc.called : Count(goc.agents, n) = 1
    /\ goc.last.existed => goc.last.outcome # "created"

(***************************************************************************)
(* Part 5: claims about the MCP analytics demo                             *)
(***************************************************************************)
UrlAccepted ==
    /\ ~Contains(demo.url, "localhost") /\ ~Contains(demo.url, "127.0.0.1")
    /\ Len(demo.url) > 0 /\ demo.url[1] \in {"http://", "https://"}

HealthReturned200 ==
    /\ Len(demo.gets) > 0
    /\ demo.gets[1].path = "/health"
    /\ demo.gets[1].outcome.tag = "response" /\ demo.gets[1].outcome.status_code = 200

\* C12: the agent service is contacted (agent, thread or run creation) only
\* if MCP_SERVER_URL contains neither localhost nor 127.0.0.1, starts with
\* http:// or https://, and a GET of <url>/health returned 200, the health
\* check coming only after the URL check; otherwise the script exits with
\* code 1 without having contacted the agent service.
C12_ChecksComeFirst ==
    /\ demo.contacts # <<>> => UrlAccepted /\ HealthReturned200
    /\ demo.gets # <<>> => UrlAccepted
    /\ (demo.pc \notin {"main", "test"} /\ ~(UrlAccepted /\ HealthReturned200)) =>
          demo.exited /\ demo.code = 1 /\ demo.contacts = <<>>

C12_Witness ==
    /\ demo.pc = "ended" /\ demo.scenario = 4
    /\ UrlAccepted /\ HealthReturned200
    /\ Len(demo.contacts) > 10

(***************************************************************************)
(* Part 6: claims about BasicMCPServer                                     *)
(***************************************************************************)
LastMethod == Get(basic.last.request.v, "method", None)
LastParams == Get(basic.last.request.v, "params", Obj(EmptyDict))

\* The last request was a tools/call naming a tool that tools/list lists
CallsListedTool ==
    /\ basic.last.request.t = "object"
    /\ LastMethod = "tools/call"
    /\ LastParams.t = "object"
    /\ Get(LastParams.v, "name", None) \in ToolNames(basic.server.tools)

\* C13 (as claimed): once an initialize request has been handled, tools/list
\* returns exactly echo, calculate and current_time, a tools/call naming a
\* listed tool returns a result with one text content item, and the error
\* 'Tool not implemented' never occurs.
C13_AdvertisedToolsWork ==
    (basic.last.initialized /\ basic.last.request.t = "object") =>
        /\ LastMethod = "tools/list" =>
              /\ basic.last.tag = "returned" /\ "result" \in DOMAIN basic.last.response
              /\ Len(basic.last.response.result.tools) = 3
              /\ ToolNames(basic.last.response.result.tools)
                    = {"echo", "calculate", "current_time"}
        /\ CallsListedTool =>
              /\ basic.last.tag = "returned" /\ "result" \in DOMAIN basic.last.response
              /\ Len(basic.last.response.result.content) = 1
              /\ basic.last.response.result.content[1].type = "text"
        /\ basic.last.exc = <<>> \/ basic.last.exc[1] # "Tool not implemented: "

\* A JSON-RPC 2.0 response that answers the request with the id req_id
IsJsonRpcResponse(resp, req_id) ==
    /\ "jsonrpc" \in DOMAIN resp /\ resp.jsonrpc = "2.0"
    /\ "id" \in DOMAIN resp /\ resp.id = req_id
    /\ ("result" \in DOMAIN resp) # ("error" \in DOMAIN resp)

\* C14: every response produced by BasicMCPServer.handle_request and by
\* MCPHandler.handle_mcp has jsonrpc "2.0", the id of its request (null when
\* the request has none) and exactly one of result and error.
C14_ResponsesAreJsonRpc ==
    /\ \A h \in inflight \cup {last} :
          h.status = 200 => IsJsonRpcResponse(h.body, Get(h.req.body.v, "id", None))
    /\ basic.last.tag = "returned" =>
          IsJsonRpcResponse(basic.last.response, Get(basic.last.request.v, "id", None))

C14_Witness ==
    /\ Served /\ last.written /\ last.status = 200
    /\ "id" \notin DOMAIN last.req.body.v
    /\ last.body.id = None /\ "result" \in DOMAIN last.body

(***************************************************************************)
(* Part 7: claims about ConversationManager                                *)
(***************************************************************************)
RECURSIVE SumMessageCount(_, _)
SumMessageCount(active_threads, names) ==
    IF names = {} THEN 0
    ELSE LET n == CHOOSE x \in names : TRUE
         IN active_threads[n].message_count + SumMessageCount(active_threads, names \ {n})

\* C15 (as claimed): each add_message appends exactly one entry to
\* conversation_history, and the sum of message_count over active_threads
\* equals the number of entries appended by add_message.
C15_EveryAddedMessageTracked ==
    /\ conv.op = "add_message" => Len(conv.conversation_history) = conv.before + 1
    /\ SumMessageCount(conv.active_threads, DOMAIN conv.active_threads) = conv.added

\* C16: no message_id occurs more than once in conversation_history.
C16_NoDuplicateMessageIds ==
    \A i, j \in DOMAIN conv.conversation_history :
        conv.conversation_history[i].message_id = conv.conversation_history[j].message_id
            => i = j

C16_Witness ==
    LET h == conv.conversation_history
    IN /\ conv.op = "execute_run_with_monitoring" /\ conv.runs = 2
       /\ Len(h) > conv.before
       /\ \E i \in 1 .. conv.before :
             /\ "run_id" \in DOMAIN h[i] /\ h[i].run_id = 1
             /\ h[i].thread_id = h[Len(h)].thread_id

(***************************************************************************)
(* Part 8: claims about the Semantic Kernel orchestrations                 *)
(***************************************************************************)

CallsOf(orchestration) ==
    SelectSeq(sk.calls, LAMBDA c : c.orchestration = orchestration)

Agents(entries) == [i \in DOMAIN entries |-> entries[i].agent]

Embeds(message, content) ==
    \E i \in 1 .. Len(message) - Len(content) + 1 :
        SubSeq(message, i, i + Len(content) - 1) = content

\* demonstrate_sequential_orchestration has been entered / is over
SequentialBegun == sk.pc # "demonstrate_orchestration" /\ sk.sk_agents # <<>>
SequentialOver ==
    \/ sk.pc \in {"roundrobin", "hybrid"}
    \/ sk.pc = "returned" /\ sk.sk_agents # <<>>
    \/ sk.pc = "raised"

\* C17: the sequential orchestration invokes research-specialist,
\* analysis-specialist and writing-specialist once each in that order, each
\* only after the previous response has arrived and with a message that
\* embeds that response, and its result list has one entry per agent in that
\* order.
C17_SequentialFixedOrder ==
    SequentialBegun =>
        LET calls == CallsOf("sequential")
        IN  /\ Len(calls) = Len(sk.results)
                               + (IF sk.pc = "sequential" /\ sk.awaiting THEN 1 ELSE 0)
            /\ \A k \in DOMAIN calls :
                   /\ calls[k].agent = agent_configs[k]
                   /\ k > 1 => Embeds(calls[k].message, sk.results[k - 1].content)
            /\ SequentialOver =>
                   /\ Agents(calls) = agent_configs
                   /\ Agents(sk.results) = agent_configs

\* demonstrate_roundrobin_orchestration has been entered / has returned
RoundRobinBegun == sk.messages_history # <<>>
RoundRobinOver == RoundRobinBegun /\ sk.pc # "roundrobin"

\* C18: the round-robin orchestration runs 2 rounds; in each, every
\* registered agent takes one turn in registration order, so the discussion
\* has 2 x (number of agents) entries with round numbers 1 then 2, and
\* messages_history grows by one message per turn.
C18_RoundRobinTurns ==
    RoundRobinBegun =>
        LET n == Len(sk.sk_agents)
            calls == CallsOf("roundrobin")
        IN  /\ Len(calls) = Len(sk.discussion)
                               + (IF sk.pc = "roundrobin" /\ sk.awaiting THEN 1 ELSE 0)
            /\ Len(sk.messages_history) = 1 + Len(sk.discussion)
            /\ \A t \in DOMAIN calls :
                   calls[t].agent = sk.sk_agents[((t - 1) % n) + 1]
            /\ \A t \in DOMAIN sk.discussion :
                   /\ sk.discussion[t].agent = calls[t].agent
                   /\ sk.discussion[t].round = (IF t <= n THEN 1 ELSE 2)
                   /\ sk.messages_history[t + 1].content = sk.discussion[t].content
            /\ Len(sk.discussion) <= 2 * n
            /\ RoundRobinOver => Len(sk.discussion) = 2 * n

\* The discussion has been returned, and its two rounds differ
C18_Witness ==
    /\ RoundRobinOver
    /\ Len(sk.sk_agents) = Len(agent_configs)
    /\ Len(sk.discussion) = 2 * Len(sk.sk_agents)
    /\ sk.discussion[1].content # sk.discussion[1 + Len(sk.sk_agents)].content

====
